---- MODULE Spec2Model ----
(***************************************************************************)
(* Model of Rocket's console logger, lib/src/logger.rs.                    *)
(*                                                                         *)
(* Two specifications share the module:                                    *)
(*   Spec      the process-wide logger: try_init/init, records emitted     *)
(*             through the log macros, direct calls of the Log trait       *)
(*             methods of RocketLogger;                                    *)
(*   SpecConv  the LoggingLevel conversions FromStr and Display, applied   *)
(*             to inputs drawn in the initial state.                       *)
(***************************************************************************)
EXTENDS Integers, Sequences, FiniteSets, TLC

VARIABLES
    logger,             \* log::LOGGER: "None" or the level held by the installed RocketLogger
    maxLogLevelFilter,  \* log::MAX_LOG_LEVEL_FILTER as usize (0 = Off)
    paintEnabled,       \* yansi's process-wide colour switch
    windows,            \* cfg!(windows) of the build
    consoleVT,          \* ENABLE_VIRTUAL_TERMINAL_PROCESSING set on the console
    tty,                \* what stdout_isatty() answered in the last try_init
    result,             \* what log::set_logger returned in the last try_init
    call,               \* the last operation and its arguments
    enabledRet,         \* what RocketLogger::enabled returned in the last call
    out,                \* what the last operation wrote to standard output
    s,                  \* SpecConv: the string given to from_str
    lvl,                \* SpecConv: the level given to Display::fmt
    parsed,             \* SpecConv: from_str(s)
    shown,              \* SpecConv: lvl.to_string()
    shownParsed,        \* SpecConv: the Ok value of parsed, displayed
    reparsed            \* SpecConv: from_str(shown)

vars == <<logger, maxLogLevelFilter, paintEnabled, windows, consoleVT, tty,
          result, call, enabledRet, out, s, lvl, parsed, shown, shownParsed,
          reparsed>>

logVars == <<logger, maxLogLevelFilter, paintEnabled, windows, consoleVT, tty,
             result, call, enabledRet, out>>

convVars == <<s, lvl, parsed, shown, shownParsed, reparsed>>

(***************************************************************************)
(* LoggingLevel and its conversions                                        *)
(***************************************************************************)

LoggingLevel == {"Critical", "Normal", "Debug"}

LogLevel == {"Error", "Warn", "Info", "Debug", "Trace"}

\* log::LogLevel as usize, the order PartialOrd compares by.
LogLevelUsize == [l \in LogLevel |->
    CASE l = "Error" -> 1
      [] l = "Warn"  -> 2
      [] l = "Info"  -> 3
      [] l = "Debug" -> 4
      [] l = "Trace" -> 5]

max_log_level_critical_error(self) ==
    CASE self = "Critical" -> "Error"
      [] self = "Normal"   -> "Info"
      [] self = "Debug"    -> "Trace"

max_log_level(self) ==
    CASE self = "Critical" -> "Warn"
      [] self = "Normal"   -> "Info"
      [] self = "Debug"    -> "Trace"

\* LogLevel::to_log_level_filter keeps the discriminant; the gate stores it as usize.
to_log_level_filter(l) == LogLevelUsize[l]

Ok(v) == [tag |-> "Ok", val |-> v]

Err(e) == [tag |-> "Err", val |-> e]

Unset == [tag |-> "Unset", val |-> ""]

from_str_any_case(str) ==
    CASE str \in {"critical", "Critical", "CRITICAL"} -> Ok("Critical")
      [] str \in {"normal", "Normal", "NORMAL"}       -> Ok("Normal")
      [] str \in {"debug", "Debug", "DEBUG"}          -> Ok("Debug")
      [] OTHER -> Err("a log level (debug, normal, critical)")

from_str(str) ==
    CASE str = "critical" -> Ok("Critical")
      [] str = "normal"   -> Ok("Normal")
      [] str = "debug"    -> Ok("Debug")
      [] OTHER -> Err("a log level (debug, normal, critical)")

fmt_variant_name(self) ==
    CASE self = "Critical" -> "Critical"
      [] self = "Normal"   -> "Normal"
      [] self = "Debug"    -> "Debug"

fmt(self) ==
    CASE self = "Critical" -> "critical"
      [] self = "Normal"   -> "normal"
      [] self = "Debug"    -> "debug"

(***************************************************************************)
(* Records                                                                 *)
(***************************************************************************)

\* &str::starts_with on strings held as sequences of characters.
starts_with(str, prefix) ==
    /\ Len(str) >= Len(prefix)
    /\ SubSeq(str, 1, Len(prefix)) = prefix

HyperPrefix == <<"h", "y", "p", "e", "r", ":", ":">>

RustlsPrefix == <<"r", "u", "s", "t", "l", "s", ":", ":">>

Locations == {
    [module_path |-> <<"h","y","p","e","r",":",":","c","l","i","e","n","t">>,
     file |-> "client/mod.rs", line |-> "101"],
    [module_path |-> <<"r","u","s","t","l","s",":",":","m","s","g","s">>,
     file |-> "msgs/mod.rs", line |-> "7"],
    [module_path |-> <<"r","o","c","k","e","t",":",":","c","o","n","f","i","g">>,
     file |-> "config/mod.rs", line |-> "42"],
    [module_path |-> <<"h","y","p","e","r","x",":",":","a">>,
     file |-> "a.rs", line |-> "3"] }

Targets == {"_", "launch", "rocket::config"}

Args == {"msg"}

LogRecord == [level : LogLevel, target : Targets, location : Locations, args : Args]

(***************************************************************************)
(* Rendering                                                               *)
(***************************************************************************)

\* Unstyled text of a format string.
Lit(t) == [text |-> t, color |-> "none", bold |-> FALSE]

\* A yansi Paint as it is displayed: styled only while painting is enabled.
Paint(color, bold, t) ==
    IF paintEnabled THEN [text |-> t, color |-> color, bold |-> bold] ELSE Lit(t)

enabled_strict(self, level) == LogLevelUsize[level] < LogLevelUsize[max_log_level(self)]

enabled(self, level) == LogLevelUsize[level] <= LogLevelUsize[max_log_level(self)]

body(level, record) ==
    CASE level = "Info"  -> <<Paint("blue", FALSE, record.args), Lit("\n")>>
      [] level = "Trace" -> <<Paint("purple", FALSE, record.args), Lit("\n")>>
      [] level = "Error" -> <<Paint("red", TRUE, "Error:"), Lit(" "),
                              Paint("red", FALSE, record.args), Lit("\n")>>
      [] level = "Warn"  -> <<Paint("yellow", TRUE, "Warning:"), Lit(" "),
                              Paint("yellow", FALSE, record.args), Lit("\n")>>
      [] level = "Debug" -> <<Lit("\n"), Paint("blue", TRUE, "-->"), Lit(" "),
                              Paint("blue", FALSE, record.location.file), Lit(":"),
                              Paint("blue", FALSE, record.location.line), Lit("\n"),
                              Lit(record.args), Lit("\n")>>

\* The severity the body is rendered with: "launch" records are shown as Info.
launch_remap_none(record) == record.level

launch_remap(record) == IF record.target = "launch" THEN "Info" ELSE record.level

from_hyper(record) == starts_with(record.location.module_path, HyperPrefix)

from_rustls(record) == starts_with(record.location.module_path, RustlsPrefix)

noise_any_level(self, record) == from_hyper(record) \/ from_rustls(record)

\* Hyper and Rustls records are dropped unless the level is Debug.
noise(self, record) == self # "Debug" /\ (from_hyper(record) \/ from_rustls(record))

indent_any_level(self, record) ==
    IF record.target = "_"
    THEN <<Lit("    "), Paint("white", FALSE, "=>"), Lit(" ")>>
    ELSE <<>>

\* Target "_" asks for indentation.
indent(self, record) ==
    IF record.target = "_" /\ self # "Critical"
    THEN <<Lit("    "), Paint("white", FALSE, "=>"), Lit(" ")>>
    ELSE <<>>

log_remap_first(self, record) ==
    IF ~enabled(self, launch_remap(record)) THEN <<>>
    ELSE IF noise(self, record) THEN <<>>
         ELSE indent(self, record) \o body(launch_remap(record), record)

log(self, record) ==
    IF ~enabled(self, record.level) THEN <<>>
    ELSE LET level == launch_remap(record)
         IN  IF noise(self, record) THEN <<>>
             ELSE indent(self, record) \o body(level, record)

(***************************************************************************)
(* Bootstrap                                                               *)
(***************************************************************************)

SetLoggerError == "attempted to set a logger after the logging system was already initialized"

set_logger_replace(level) ==
    [result |-> "Ok", logger |-> level,
     filter |-> to_log_level_filter(max_log_level(level))]

set_logger_gate_first(level) ==
    IF logger = "None"
    THEN [result |-> "Ok", logger |-> level,
          filter |-> to_log_level_filter(max_log_level(level))]
    ELSE [result |-> "Err", logger |-> logger,
          filter |-> to_log_level_filter(max_log_level(level))]

\* log::set_logger with try_init's closure: the closure runs, and the gate is
\* set, only when no logger was installed before.
set_logger(level) ==
    IF logger = "None"
    THEN [result |-> "Ok", logger |-> level,
          filter |-> to_log_level_filter(max_log_level(level))]
    ELSE [result |-> "Err", logger |-> logger, filter |-> maxLogLevelFilter]

paint_follows_tty(isatty) == isatty

\* Paint::disable() when standard output is not a terminal.
paint_after(isatty) == IF ~isatty THEN FALSE ELSE paintEnabled

\* windows_console::enable_ascii_colors(), called on Windows terminals only.
enable_ascii_colors(isatty, console_ok) ==
    IF isatty /\ windows /\ console_ok THEN TRUE ELSE consoleVT

try_init(level, verbose) ==
    \E isatty \in BOOLEAN, console_ok \in BOOLEAN :
        LET r == set_logger(level) IN
        /\ tty' = isatty
        /\ paintEnabled' = paint_after(isatty)
        /\ consoleVT' = enable_ascii_colors(isatty, console_ok)
        /\ logger' = r.logger
        /\ maxLogLevelFilter' = r.filter
        /\ result' = r.result
        /\ out' = IF r.result = "Err" /\ verbose
                  THEN <<Lit("Logger failed to initialize: "), Lit(SetLoggerError), Lit("\n")>>
                  ELSE <<>>
        /\ UNCHANGED <<windows, enabledRet>>
        /\ UNCHANGED convVars

init(level) == try_init(level, TRUE)

CallTryInit ==
    \E level \in LoggingLevel, verbose \in BOOLEAN :
        /\ try_init(level, verbose)
        /\ call' = [op |-> "try_init", level |-> level, verbose |-> verbose]

CallInit ==
    \E level \in LoggingLevel :
        /\ init(level)
        /\ call' = [op |-> "init", level |-> level, verbose |-> TRUE]

(***************************************************************************)
(* Logging                                                                 *)
(***************************************************************************)

\* RocketLogger(self).enabled(md)
CallEnabled ==
    \E self \in LoggingLevel, level \in LogLevel :
        /\ enabledRet' = enabled(self, level)
        /\ out' = <<>>
        /\ call' = [op |-> "enabled", self |-> self, level |-> level]
        /\ UNCHANGED <<logger, maxLogLevelFilter, paintEnabled, windows, consoleVT, tty, result>>
        /\ UNCHANGED convVars

\* RocketLogger(self).log(record)
CallLog ==
    \E self \in LoggingLevel, record \in LogRecord :
        /\ enabledRet' = enabled(self, record.level)
        /\ out' = log(self, record)
        /\ call' = [op |-> "log", via |-> "direct", self |-> self, record |-> record]
        /\ UNCHANGED <<logger, maxLogLevelFilter, paintEnabled, windows, consoleVT, tty, result>>
        /\ UNCHANGED convVars

\* error!/warn!/info!/debug!/trace!, their log_! forms and launch_info!: the
\* log! macro hands the record to the installed logger when its level passes
\* the global gate.
Emit ==
    \E record \in LogRecord :
        /\ IF logger # "None" /\ LogLevelUsize[record.level] <= maxLogLevelFilter
           THEN /\ enabledRet' = enabled(logger, record.level)
                /\ out' = log(logger, record)
                /\ call' = [op |-> "log", via |-> "macro", self |-> logger, record |-> record]
           ELSE /\ out' = <<>>
                /\ call' = [op |-> "filtered", record |-> record]
                /\ UNCHANGED enabledRet
        /\ UNCHANGED <<logger, maxLogLevelFilter, paintEnabled, windows, consoleVT, tty, result>>
        /\ UNCHANGED convVars

(***************************************************************************)
(* Conversions applied                                                     *)
(***************************************************************************)

Tokens == {"critical", "normal", "debug", "Critical", "Debug", "NORMAL", "",
           " debug", "debug ", "critical\n", "warn", "off"}

FromStr ==
    /\ parsed' = from_str(s)
    /\ UNCHANGED <<s, lvl, shown, shownParsed, reparsed>>
    /\ UNCHANGED logVars

Display ==
    /\ shown' = fmt(lvl)
    /\ UNCHANGED <<s, lvl, parsed, shownParsed, reparsed>>
    /\ UNCHANGED logVars

DisplayParsed ==
    /\ parsed.tag = "Ok"
    /\ shownParsed' = fmt(parsed.val)
    /\ UNCHANGED <<s, lvl, parsed, shown, reparsed>>
    /\ UNCHANGED logVars

FromStrShown ==
    /\ shown # "<unset>"
    /\ reparsed' = from_str(shown)
    /\ UNCHANGED <<s, lvl, parsed, shown, shownParsed>>
    /\ UNCHANGED logVars

(***************************************************************************)
(* Specifications                                                          *)
(***************************************************************************)

LogInit ==
    /\ logger = "None"
    /\ maxLogLevelFilter = 0
    /\ paintEnabled = TRUE
    /\ windows \in BOOLEAN
    /\ consoleVT = FALSE
    /\ tty = TRUE
    /\ result = "None"
    /\ call = [op |-> "start"]
    /\ enabledRet = FALSE
    /\ out = <<>>

ConvUnset ==
    /\ parsed = Unset
    /\ shown = "<unset>"
    /\ shownParsed = "<unset>"
    /\ reparsed = Unset

Init ==
    /\ LogInit
    /\ s = ""
    /\ lvl = "Normal"
    /\ ConvUnset

Next ==
    \/ CallTryInit
    \/ CallInit
    \/ CallEnabled
    \/ CallLog
    \/ Emit

Spec == Init /\ [][Next]_vars

InitConv ==
    /\ LogInit
    /\ windows = FALSE
    /\ s \in Tokens
    /\ lvl \in LoggingLevel
    /\ ConvUnset

NextConv ==
    \/ FromStr
    \/ Display
    \/ DisplayParsed
    \/ FromStrShown

SpecConv == InitConv /\ [][NextConv]_vars

TypeOK ==
    /\ logger \in LoggingLevel \cup {"None"}
    /\ maxLogLevelFilter \in 0..5
    /\ paintEnabled \in BOOLEAN
    /\ result \in {"None", "Ok", "Err"}
    /\ enabledRet \in BOOLEAN

(***************************************************************************)
(* The stated level policy and renderer, against which the code is checked *)
(***************************************************************************)

CeilingOf == [l \in LoggingLevel |->
    IF l = "Critical" THEN "Warn" ELSE IF l = "Normal" THEN "Info" ELSE "Trace"]

RankOrder == <<"Error", "Warn", "Info", "Debug", "Trace">>

RankOf == [v \in LogLevel |-> CHOOSE i \in 1..Len(RankOrder) : RankOrder[i] = v]

StatedEnabled(l, v) == RankOf[v] <= RankOf[CeilingOf[l]]

StatedNoisy(record) ==
    \/ starts_with(record.location.module_path, <<"h","y","p","e","r",":",":">>)
    \/ starts_with(record.location.module_path, <<"r","u","s","t","l","s",":",":">>)

StatedSuppressed(l, record) == l # "Debug" /\ StatedNoisy(record)

StatedSeverity(record) == IF record.target = "launch" THEN "Info" ELSE record.level

Texts(pieces) == [i \in DOMAIN pieces |-> pieces[i].text]

PrefixTexts == <<"    ", "=>", " ">>

HasPrefix(pieces) == Len(pieces) >= 3 /\ SubSeq(Texts(pieces), 1, 3) = PrefixTexts

BodyTexts(v, record) ==
    CASE v = "Info"  -> <<record.args, "\n">>
      [] v = "Trace" -> <<record.args, "\n">>
      [] v = "Error" -> <<"Error:", " ", record.args, "\n">>
      [] v = "Warn"  -> <<"Warning:", " ", record.args, "\n">>
      [] v = "Debug" -> <<"\n", "-->", " ", record.location.file, ":",
                          record.location.line, "\n", record.args, "\n">>

Accent(color) == IF paintEnabled THEN color ELSE "none"

InfoForm(record) ==
    <<[text |-> record.args, color |-> Accent("blue"), bold |-> FALSE],
      [text |-> "\n", color |-> "none", bold |-> FALSE]>>

InitOps == {"try_init", "init"}

FailureTexts == <<"Logger failed to initialize: ", SetLoggerError, "\n">>

ValidTokens == {"debug", "normal", "critical"}

(***************************************************************************)
(* Claims                                                                  *)
(***************************************************************************)

\* C1: RocketLogger(L).enabled(S) is true exactly when rank(S) <= rank(ceiling(L)),
\* with ceiling(Critical)=Warn, ceiling(Normal)=Info, ceiling(Debug)=Trace and
\* the rank order Error < Warn < Info < Debug < Trace.
C1_EnabledIffWithinCeiling ==
    /\ call.op = "enabled" => (enabledRet <=> StatedEnabled(call.self, call.level))
    /\ call.op = "log" => (enabledRet <=> StatedEnabled(call.self, call.record.level))

C1_Witness ==
    /\ call.op = "enabled"
    /\ call.self = "Critical"
    /\ call.level = "Warn"
    /\ enabledRet

\* C2: the first init/try_init installs a logger holding its level; every
\* later call fails, leaves the installed logger as it is, and prints the
\* failure message exactly when it was verbose; init is always verbose; no
\* other step replaces the installed logger.
C2_SingleInstall ==
    [][ /\ (call'.op \in InitOps /\ logger = "None") =>
               (logger' = call'.level /\ result' = "Ok")
        /\ (call'.op \in InitOps /\ logger # "None") =>
               /\ logger' = logger
               /\ result' = "Err"
               /\ (Texts(out') = FailureTexts) <=> call'.verbose
               /\ ~call'.verbose => out' = <<>>
        /\ call'.op = "init" => call'.verbose
        /\ logger # "None" => logger' = logger ]_vars

C2_Witness ==
    /\ call.op = "try_init"
    /\ ~call.verbose
    /\ result = "Err"
    /\ logger = "Critical"
    /\ call.level = "Debug"
    /\ out = <<>>

\* C3: once a logger is installed the global gate equals the ceiling of the
\* installed logger's level, also after failed later calls with another level,
\* and no record above that ceiling is handed to RocketLogger::log by the macros.
C3_GateIsCeiling ==
    /\ logger # "None" => maxLogLevelFilter = RankOf[CeilingOf[logger]]
    /\ (call.op = "log" /\ call.via = "macro") =>
           /\ call.self = logger
           /\ RankOf[call.record.level] <= RankOf[CeilingOf[logger]]
    /\ (call.op = "filtered" /\ logger # "None") =>
           RankOf[call.record.level] > RankOf[CeilingOf[logger]]

C3_Witness ==
    /\ call.op \in InitOps
    /\ result = "Err"
    /\ call.level = "Debug"
    /\ logger = "Critical"
    /\ maxLogLevelFilter = 2

\* C4: parsing and display round-trip: displaying the level parsed from a
\* valid token gives the token back, parsing the display of a level gives
\* that level, and the three levels display as critical, normal and debug.
C4_RoundTrip ==
    /\ (s \in ValidTokens /\ parsed # Unset) => parsed.tag = "Ok"
    /\ (s \in ValidTokens /\ shownParsed # "<unset>") => shownParsed = s
    /\ reparsed # Unset => reparsed = [tag |-> "Ok", val |-> lvl]
    /\ shown # "<unset>" =>
           /\ lvl = "Critical" => shown = "critical"
           /\ lvl = "Normal" => shown = "normal"
           /\ lvl = "Debug" => shown = "debug"

C4_Witness ==
    /\ s = "debug"
    /\ shownParsed = "debug"
    /\ lvl = "Critical"
    /\ reparsed = [tag |-> "Ok", val |-> "Critical"]

\* C5 as stated: from_str on any string other than exactly critical, normal
\* or debug returns an error whose value is "expected one of debug/normal/critical".
C5_ErrorIsExpectedOneOf ==
    (parsed # Unset /\ s \notin ValidTokens) =>
        parsed = [tag |-> "Err", val |-> "expected one of debug/normal/critical"]

\* C5 amended: from_str on any string other than exactly critical, normal or
\* debug returns an error, never a level, and the error value is the static
\* string "a log level (debug, normal, critical)".
C5_ErrorIsALogLevel ==
    (parsed # Unset /\ s \notin ValidTokens) =>
        parsed = [tag |-> "Err", val |-> "a log level (debug, normal, critical)"]

C5_Witness ==
    /\ s = "Debug"
    /\ parsed.tag = "Err"

\* C6: a record from a module path starting with hyper:: or rustls:: produces
\* no output under Critical and Normal, whatever its severity and target; under
\* Debug it is rendered like any other record.
C6_NoiseSuppression ==
    (call.op = "log" /\ StatedNoisy(call.record)) =>
        /\ call.self \in {"Critical", "Normal"} => out = <<>>
        /\ call.self = "Debug" =>
               /\ out # <<>>
               /\ Texts(out) = (IF call.record.target = "_" THEN PrefixTexts ELSE <<>>)
                               \o BodyTexts(StatedSeverity(call.record), call.record)

C6_Witness ==
    /\ call.op = "log"
    /\ call.self = "Normal"
    /\ call.record.level = "Error"
    /\ from_hyper(call.record)
    /\ out = <<>>

\* C7: a launch record is rendered in the Info form and never in the Error
\* form; whether it is printed is decided by its original severity, so a
\* launch record at Error is printed under every level, Critical included,
\* where an ordinary Info record is filtered out.
C7_LaunchRemap ==
    call.op = "log" =>
        /\ (call.record.target = "launch" /\ out # <<>>) =>
               /\ out = InfoForm(call.record)
               /\ \A i \in DOMAIN out : out[i].text # "Error:"
        /\ (call.record.target = "launch" /\ call.record.level = "Error"
            /\ ~StatedNoisy(call.record)) => out # <<>>
        /\ (call.record.target = "launch" /\ ~StatedEnabled(call.self, call.record.level)) =>
               out = <<>>
        /\ (call.record.target # "launch" /\ call.record.level = "Info"
            /\ call.self = "Critical") => out = <<>>

C7_Witness ==
    /\ call.op = "log"
    /\ call.self = "Critical"
    /\ call.record.target = "launch"
    /\ call.record.level = "Error"
    /\ out = InfoForm(call.record)

\* C8: an enabled, non-suppressed record gets the indentation prefix (four
\* spaces, "=>", one space, no newline) before its body exactly when its target
\* is "_" and the level is not Critical; at Critical a "_" record of severity
\* Warn or Error gets no prefix and its body in full.
C8_IndentationPrefix ==
    (/\ call.op = "log"
     /\ StatedEnabled(call.self, call.record.level)
     /\ ~StatedSuppressed(call.self, call.record)) =>
        /\ HasPrefix(out) <=> (call.record.target = "_" /\ call.self # "Critical")
        /\ HasPrefix(out) => Len(out) > 3
        /\ (call.self = "Critical" /\ call.record.target = "_") =>
               Texts(out) = BodyTexts(call.record.level, call.record)

C8_Witness ==
    /\ call.op = "log"
    /\ call.self = "Critical"
    /\ call.record.target = "_"
    /\ call.record.level = "Warn"
    /\ Texts(out) = <<"Warning:", " ", "msg", "\n">>

\* C9: the colour switch is one-way: a try_init that finds standard output
\* not to be a terminal disables it, whether or not the installation
\* succeeds, and no later step enables it again.
C9_ColorOneWay ==
    [][ /\ ~paintEnabled => ~paintEnabled'
        /\ (call'.op \in InitOps /\ ~tty') => ~paintEnabled' ]_vars

C9_Witness ==
    /\ call.op \in InitOps
    /\ result = "Err"
    /\ tty
    /\ ~paintEnabled

\* C10: one call of log emits nothing, or one body chosen by the effective
\* severity, preceded by at most one indentation prefix; it emits nothing
\* exactly when the record is disabled by its original severity or is
\* noise-suppressed, and a prefix is never emitted without a body.
C10_NothingOrOneBody ==
    call.op = "log" =>
        /\ out = <<>> <=> (\/ ~StatedEnabled(call.self, call.record.level)
                           \/ StatedSuppressed(call.self, call.record))
        /\ out # <<>> =>
               \/ Texts(out) = BodyTexts(StatedSeverity(call.record), call.record)
               \/ Texts(out) = PrefixTexts \o BodyTexts(StatedSeverity(call.record), call.record)

C10_Witness ==
    /\ call.op = "log"
    /\ call.self = "Normal"
    /\ call.record.level = "Trace"
    /\ call.record.target = "launch"
    /\ out = <<>>

====
